---- MODULE Spec2Model ----
(***************************************************************************)
(* The "cool bitcrusher" plugin of src/src/lib.rs: one FloatParam "crush"  *)
(* with a linear smoother, and Dontpanic::process, which for every frame   *)
(* of a block advances the smoother once and then rewrites every channel   *)
(* sample of the frame in place.                                           *)
(*                                                                         *)
(* Numbers.  The code computes in f32.  Here a sample or a crush value is  *)
(* an exact rational <<n, d>> in lowest terms with d > 0, or one of the    *)
(* two IEEE specials a division by zero produces: NaN = <<0, 0>> (0/0) and *)
(* Inf = <<1, 0>> (x/0, x # 0).                                            *)
(* The smoother keeps its crush value on an integer grid (fixed point with *)
(* quantum 1), so its step size is truncated like a rounded float step.    *)
(***************************************************************************)
EXTENDS Integers, Sequences, FiniteSets

VARIABLES
    pc,          \* "new" | "idle" | "frames" | "samples": where the plugin is
    initResult,  \* what initialize returned ("None" before it is called)
    smoothed,    \* params.crush.smoothed: [current, target, steps_left, step_size]
    buffer,      \* the block being processed: buffer[frame][channel + 1]
    frame,       \* position of buffer.iter_samples(): frames consumed
    sampleIt,    \* position of the frame's sample iterator: samples consumed
    channel,     \* the local `channel` of process
    crush,       \* the local `crush` of process
    status,      \* the ProcessStatus of the last process call ("None" while running)
    \* history variables, read by the properties only
    input,       \* the block as the host delivered it
    frameCrush,  \* the crush value each started frame was processed with
    writes,      \* how often each sample of the block was written
    nextCalls,   \* smoother steps taken by the current process call
    drift,       \* smoother steps minus frames, summed over the finished calls
    trace,       \* the locals of the latest sample processed (<<>> before)
    requested,   \* the value the latest set_target asked for (<<>> before)
    sinceSet     \* smoother steps since the latest set_target, saturating

vars == <<pc, initResult, smoothed, buffer, frame, sampleIt, channel, crush,
          status, input, frameCrush, writes, nextCalls, drift, trace,
          requested, sinceSet>>

-----------------------------------------------------------------------------
(* Program constants *)

CrushDefault == 0
CrushMin == 20
CrushMax == 50
SmoothingMs == 50
NumChannels == 2
BoostNum == 21
BoostDen == 20

(* Bounds of the model *)

MaxFrames == 2
RateUnits == 3
SampleDen == 4

\* The host's sample rate in Hz, in units of 20 Hz: 50 ms are RateUnits steps.
SampleRate == 20 * RateUnits

-----------------------------------------------------------------------------
(* Rational arithmetic *)

NaN == <<0, 0>>
Inf == <<1, 0>>

AbsInt(n) == IF n < 0 THEN -n ELSE n

RECURSIVE GCD(_, _)
GCD(a, b) == IF b = 0 THEN a ELSE GCD(b, a % b)

\* n / d in lowest terms, d # 0
Norm(n, d) ==
    LET g == GCD(AbsInt(n), AbsInt(d))
        s == IF (n < 0) # (d < 0) THEN -1 ELSE 1
    IN  <<s * (AbsInt(n) \div g), AbsInt(d) \div g>>

IsRat(v) == v[2] # 0
Rat(n) == <<n, 1>>
Zero == Rat(0)
One == Rat(1)

Sgn(n) == IF n < 0 THEN -1 ELSE IF n > 0 THEN 1 ELSE 0

\* comparisons of two finite values (false when either is a special)
Less(a, b) == IsRat(a) /\ IsRat(b) /\ a[1] * b[2] < b[1] * a[2]
Leq(a, b) == IsRat(a) /\ IsRat(b) /\ a[1] * b[2] <= b[1] * a[2]

\* f32 multiplication: NaN * x and Inf * 0 are NaN, Inf * x is an infinity
Mul(a, b) ==
    IF a[2] = 0 \/ b[2] = 0
    THEN <<Sgn(a[1]) * Sgn(b[1]), 0>>
    ELSE Norm(a[1] * b[1], a[2] * b[2])

\* f32 division: 0/0, NaN/x, x/NaN and Inf/Inf are NaN, x/0 is an infinity,
\* x/Inf is 0
Div(a, b) ==
    IF b[2] = 0
    THEN (IF a[2] = 0 \/ b[1] = 0 THEN NaN ELSE Zero)
    ELSE IF b[1] = 0 \/ a[2] = 0
    THEN <<Sgn(a[1]) * (IF b[1] < 0 THEN -1 ELSE 1), 0>>
    ELSE Norm(a[1] * b[2], a[2] * b[1])

-----------------------------------------------------------------------------
(* The per-sample transform of Dontpanic::process, one operator per line of *)
(* the inner loop body                                                      *)

\* let mut channel_crush = crush; if channel == 0 { channel_crush *= 1.05; }
ChannelCrush(c, ch) ==
    IF ch = 0 THEN Mul(c, <<BoostNum, BoostDen>>) ELSE c

\* let x = x * channel_crush;
Scale(x, cc) == Mul(x, cc)

\* floor(s + 1/2): rounds the ties upwards, not away from zero
RoundHalfUp(s) ==
    LET n == 2 * s[1] + s[2]
        d == 2 * s[2]
    IN  IF s[2] = 0 THEN s
        ELSE Rat(IF n >= 0 THEN n \div d ELSE -((-n + d - 1) \div d))

\* let x = x.round();  f32::round: nearest integer, ties away from zero;
\* a NaN or an infinity is returned as it is
Round(s) ==
    LET mag == (2 * AbsInt(s[1]) + s[2]) \div (2 * s[2])
    IN  IF s[2] = 0 THEN s
        ELSE Rat(IF s[1] < 0 THEN -mag ELSE mag)

\* let x = x / channel_crush;
Restore(q, cc) == Div(q, cc)

\* the rectifier left out
AbsKeepSign(r) == r

\* let x = x.abs();
Abs(r) == <<AbsInt(r[1]), r[2]>>

\* let x = x.tanh();  the second convergent of Lambert's continued fraction,
\* tanh r ~ r / (1 + r^2 / 3) = 3ab / (3b^2 + a^2) for r = a/b: odd, zero at
\* zero, below 1, and within 0.012 of tanh on [0, 1.025], where every restored
\* value of an in-range sample lies.  tanh(NaN) = NaN, tanh(+-Inf) = +-1.
Tanh(r) ==
    IF r = NaN THEN NaN
    ELSE IF r[2] = 0 THEN Rat(r[1])
    ELSE Norm(3 * r[1] * r[2], 3 * r[2] * r[2] + r[1] * r[1])

\* the locals of one pass of the inner loop, for input x at crush c and
\* channel counter ch
Locals(c, ch, x) ==
    LET cc == ChannelCrush(c, ch)
        scaled == Scale(x, cc)
        quantized == Round(scaled)
        restored == Restore(quantized, cc)
        rectified == Abs(restored)
    IN  [crush |-> c, channel |-> ch, x |-> x, channel_crush |-> cc,
         scaled |-> scaled, quantized |-> quantized, restored |-> restored,
         rectified |-> rectified, out |-> Tanh(rectified)]

-----------------------------------------------------------------------------
(* Parameter State: the crush parameter's range and its linear smoother     *)

\* a range check that lets values below the minimum through
ClampUpperOnly(v) == IF v > CrushMax THEN CrushMax ELSE v

\* FloatRange::Linear { min: 20.0, max: 50.0 }: requests are clamped
Clamp(v) ==
    IF v < CrushMin THEN CrushMin ELSE IF v > CrushMax THEN CrushMax ELSE v

\* SmoothingStyle::Linear(50.0): the ramp's length in frames
NumSteps == (SampleRate * SmoothingMs + 500) \div 1000

\* integer division truncating towards zero
TruncDiv(a, b) == IF a < 0 THEN -((-a) \div b) ELSE a \div b

\* FloatParam::new("Crush", 0.0, ...).with_smoother(...): the value and the
\* smoother start at the declared default, which new() does not clamp
NewSmoother ==
    [current |-> CrushDefault, target |-> CrushDefault,
     steps_left |-> 0, step_size |-> 0]

\* the ramp restarts from the current smoothed value towards the new target
SmootherSetTarget(s, t) ==
    [current |-> s.current, target |-> t, steps_left |-> NumSteps,
     step_size |-> IF NumSteps > 0 THEN TruncDiv(t - s.current, NumSteps) ELSE 0]

\* a smoother that never lands on the target: it keeps adding the step
SmootherNextNoSnap(s) ==
    IF s.steps_left > 0
    THEN [s EXCEPT !.steps_left = @ - 1, !.current = @ + s.step_size]
    ELSE s

\* smoothed.next(): one step of the ramp; the last step lands on the target
SmootherNext(s) ==
    IF s.steps_left > 0
    THEN [s EXCEPT !.steps_left = @ - 1,
                   !.current = IF s.steps_left = 1 THEN s.target
                               ELSE @ + s.step_size]
    ELSE s

\* the value smoothed.next() returns, given the smoother after the step
SmoothedValue(s) == IF s.steps_left > 0 THEN s.current ELSE s.target

-----------------------------------------------------------------------------
(* What the host supplies *)

\* the input samples of the blocks of the state machine: silence and 1/2
BlockSamples == {<<0, 1>>, <<1, 2>>}

\* the input samples of the single frames the transform is checked on:
\* -1, ..., -1/SampleDen, 0, 1/SampleDen, ..., 1
Samples == {Norm(k, SampleDen) : k \in -SampleDen..SampleDen}

\* values the host asks set_target for: below, inside and above the range
Requests == {10, 35, 60}

Channels == 1..NumChannels

\* the blocks of 0..MaxFrames stereo frames
Blocks == UNION {[1..n -> [Channels -> BlockSamples]] : n \in 0..MaxFrames}

-----------------------------------------------------------------------------
(* The state machine *)

Init ==
    /\ pc = "new"
    /\ initResult = "None"
    /\ smoothed = NewSmoother
    /\ buffer = <<>>
    /\ frame = 0
    /\ sampleIt = 0
    /\ channel = 0
    /\ crush = CrushDefault
    /\ status = "None"
    /\ input = <<>>
    /\ frameCrush = <<>>
    /\ writes = <<>>
    /\ nextCalls = 0
    /\ drift = 0
    /\ trace = <<>>
    /\ requested = <<>>
    /\ sinceSet = 0

\* Plugin::initialize: returns true, changes nothing
Initialize ==
    /\ pc = "new"
    /\ pc' = "idle"
    /\ initResult' = "true"
    /\ UNCHANGED <<smoothed, buffer, frame, sampleIt, channel, crush, status,
                   input, frameCrush, writes, nextCalls, drift, trace,
                   requested, sinceSet>>

\* the host or the UI changes the parameter, at any time
SetTarget(v) ==
    /\ smoothed' = SmootherSetTarget(smoothed, Clamp(v))
    /\ requested' = <<v>>
    /\ sinceSet' = 0
    /\ UNCHANGED <<pc, initResult, buffer, frame, sampleIt, channel, crush,
                   status, input, frameCrush, writes, nextCalls, drift, trace>>

\* the host calls process with a block
ProcessBegin(block) ==
    /\ pc = "idle"
    /\ pc' = "frames"
    /\ buffer' = block
    /\ frame' = 0
    /\ status' = "None"
    /\ input' = block
    /\ frameCrush' = <<>>
    /\ writes' = [f \in 1..Len(block) |-> [c \in Channels |-> 0]]
    /\ nextCalls' = 0
    /\ UNCHANGED <<initResult, smoothed, sampleIt, channel, crush, drift,
                   trace, requested, sinceSet>>

\* what the head of the frame loop does, given the value ch0 the channel
\* counter starts the frame with and the sample first the iterator starts at
FrameStep(ch0, first) ==
    /\ pc = "frames"
    /\ frame < Len(buffer)
    /\ pc' = "samples"
    /\ smoothed' = SmootherNext(smoothed)
    /\ crush' = SmoothedValue(SmootherNext(smoothed))
    /\ channel' = ch0
    /\ sampleIt' = first
    /\ frameCrush' = Append(frameCrush, SmoothedValue(SmootherNext(smoothed)))
    /\ nextCalls' = nextCalls + 1
    /\ sinceSet' = IF sinceSet > NumSteps THEN sinceSet ELSE sinceSet + 1
    /\ UNCHANGED <<initResult, buffer, frame, status, input, writes, drift,
                   trace, requested>>

\* `let mut channel = 0` hoisted out of the frame loop: the counter runs on
NextFrameKeepsChannel == FrameStep(IF frame = 0 THEN 0 ELSE channel, 0)

\* the inner loop starting at the second sample of the frame
NextFrameSkipsLeft == FrameStep(1, 1)

\* for channel_samples in buffer.iter_samples() {
\*     let crush = self.params.crush.smoothed.next();
\*     let mut channel = 0;
NextFrame == FrameStep(0, 0)

\* what one pass of the inner loop does, given the crush value c it works with
\* and the slot of the frame it reads its input from
SampleStep(c, slot) ==
    LET locals == Locals(Rat(c), channel, buffer[frame + 1][slot])
    IN  /\ pc = "samples"
        /\ sampleIt < NumChannels
        /\ trace' = <<[frame |-> frame, slot |-> sampleIt, locals |-> locals]>>
        /\ buffer' = [buffer EXCEPT ![frame + 1][sampleIt + 1] = locals.out]
        /\ writes' = [writes EXCEPT ![frame + 1][sampleIt + 1] = @ + 1]
        /\ channel' = channel + 1
        /\ sampleIt' = sampleIt + 1
        /\ IF sampleIt + 1 = NumChannels
           THEN pc' = "frames" /\ frame' = frame + 1
           ELSE pc' = "samples" /\ frame' = frame
        /\ UNCHANGED <<initResult, status, input, frameCrush, drift, requested>>

\* the smoother read inside the inner loop: one step per sample
ProcessSampleStepsSmoother ==
    /\ smoothed' = SmootherNext(smoothed)
    /\ crush' = SmoothedValue(SmootherNext(smoothed))
    /\ nextCalls' = nextCalls + 1
    /\ sinceSet' = IF sinceSet > NumSteps THEN sinceSet ELSE sinceSet + 1
    /\ SampleStep(SmoothedValue(SmootherNext(smoothed)), sampleIt + 1)

\* every sample of the frame computed from the frame's first slot
ProcessSampleReadsLeft ==
    /\ SampleStep(crush, 1)
    /\ UNCHANGED <<smoothed, crush, nextCalls, sinceSet>>

\* for sample in channel_samples { ...; *sample = x; channel += 1; }
ProcessSample ==
    /\ SampleStep(crush, sampleIt + 1)
    /\ UNCHANGED <<smoothed, crush, nextCalls, sinceSet>>

\* the frame iterator is exhausted: ProcessStatus::Normal.  The borrow of the
\* block ends and the locals go out of scope.
ProcessReturn ==
    /\ pc = "frames"
    /\ frame = Len(buffer)
    /\ pc' = "idle"
    /\ status' = "Normal"
    /\ buffer' = <<>>
    /\ frame' = 0
    /\ sampleIt' = 0
    /\ channel' = 0
    /\ crush' = CrushDefault
    /\ input' = <<>>
    /\ frameCrush' = <<>>
    /\ trace' = <<>>
    /\ drift' = drift + nextCalls - Len(buffer)
    /\ UNCHANGED <<initResult, smoothed, writes, nextCalls, requested,
                   sinceSet>>

Next ==
    \/ Initialize
    \/ \E v \in Requests : SetTarget(v)
    \/ \E block \in Blocks : ProcessBegin(block)
    \/ NextFrame
    \/ ProcessSample
    \/ ProcessReturn

Spec == Init /\ [][Next]_vars

-----------------------------------------------------------------------------
(* The per-sample transform on its own: process is at the first sample of a *)
(* one-frame block, the smoother settled at the default (no set_target yet) *)
(* or at any value of the declared range, and the inner loop runs.          *)

SettledAt(c) == [current |-> c, target |-> c, steps_left |-> 0, step_size |-> 0]

SampleInit ==
    /\ pc = "samples"
    /\ initResult = "true"
    /\ crush \in {CrushDefault} \cup (CrushMin..CrushMax)
    /\ smoothed = SettledAt(crush)
    /\ buffer \in [1..1 -> [Channels -> Samples]]
    /\ frame = 0
    /\ sampleIt = 0
    /\ channel = 0
    /\ status = "None"
    /\ input = buffer
    /\ frameCrush = <<crush>>
    /\ writes = <<[c \in Channels |-> 0]>>
    /\ nextCalls = 1
    /\ drift = 0
    /\ trace = <<>>
    /\ requested = IF crush = CrushDefault THEN <<>> ELSE <<crush>>
    /\ sinceSet = IF crush = CrushDefault THEN 0 ELSE NumSteps + 1

SampleSpec == SampleInit /\ [][ProcessSample]_vars

-----------------------------------------------------------------------------
(* Properties *)

\* the samples of the current block that process has written so far
Written ==
    {cell \in (1..Len(buffer)) \X Channels : writes[cell[1]][cell[2]] > 0}

\* the transform of the right channel (any channel counter other than 0)
\* for input x at crush c
RightOutput(c, x) == Locals(c, 1, x).out

\* C1: over any sequence of process calls the smoother is stepped exactly once
\* per frame, in frame order and before any sample of the frame is processed:
\* the steps and the frames of the finished calls never drift apart, the
\* running call has taken one step per frame started, a sample is written only
\* in a frame whose step was taken, and every sample of a frame is computed
\* from the value that step returned.
C1_OneStepPerFrame ==
    /\ drift = 0
    /\ pc = "frames" => nextCalls = frame /\ Len(frameCrush) = frame
    /\ pc = "samples" =>
          /\ nextCalls = frame + 1
          /\ Len(frameCrush) = frame + 1
          /\ frameCrush[frame + 1] = crush
    /\ (pc = "idle" /\ status = "Normal") => nextCalls = Len(writes)
    /\ \A cell \in Written : cell[1] <= Len(frameCrush)
    /\ Len(trace) = 1 =>
          trace[1].locals.crush = Rat(frameCrush[trace[1].frame + 1])

\* C1 witness: a call has returned after a block of MaxFrames frames that
\* the smoother ramped through
C1_Witness ==
    /\ pc = "idle"
    /\ status = "Normal"
    /\ Len(writes) = MaxFrames
    /\ nextCalls = MaxFrames
    /\ smoothed.steps_left > 0
    /\ smoothed.steps_left < NumSteps

\* C2: the output of channel 0 at crush c equals the output of a channel other
\* than 0 at crush c * 1.05, and the 1.05 is applied to channel 0 of every
\* frame and to no other channel: every written sample of the block is the
\* right-channel transform of its input, at crush c * 1.05 in the first slot
\* of its frame and at crush c in every other slot.
C2_LeftIsRightAtBoostedCrush ==
    \A cell \in Written :
        LET c == Rat(frameCrush[cell[1]])
            x == input[cell[1]][cell[2]]
        IN  buffer[cell[1]][cell[2]] =
                IF cell[2] = 1
                THEN RightOutput(Mul(c, <<BoostNum, BoostDen>>), x)
                ELSE RightOutput(c, x)

\* C2 witness: the left sample of a later frame has been written, and the
\* boost changed it
C2_Witness ==
    /\ <<MaxFrames, 1>> \in Written
    /\ buffer[MaxFrames][1] #
           RightOutput(Rat(frameCrush[MaxFrames]), input[MaxFrames][1])
    /\ IsRat(buffer[MaxFrames][1])

\* the locals of the latest sample processed, when there is one
Traced == Len(trace) = 1
Latest == trace[1].locals

InRange(c) == Leq(Rat(CrushMin), c) /\ Leq(c, Rat(CrushMax))

\* C3: from construction on, every smoothed crush value process reads lies in
\* [20.0, 50.0], and the channel_crush it multiplies and divides by is
\* positive.
C3_CrushAlwaysInRange ==
    /\ pc = "samples" => crush \in CrushMin..CrushMax
    /\ Traced => InRange(Latest.crush) /\ Less(Zero, Latest.channel_crush)

\* C4: an input sample of 0.0 is written back as exactly 0.0, at any crush
\* value and on any channel.
C4_SilencePreserved ==
    (Traced /\ Latest.x = Zero) => Latest.out = Zero

\* C5: for a crush value in [20.0, 50.0] and an input sample in [-1.0, 1.0]
\* the sample written is at least 0.0 and below 1.0, on either channel.
C5_OutputInUnitInterval ==
    (/\ Traced
     /\ InRange(Latest.crush)
     /\ Leq(Rat(-1), Latest.x)
     /\ Leq(Latest.x, One))
    => /\ Leq(Zero, Latest.out)
       /\ Less(Latest.out, One)
       /\ buffer[trace[1].frame + 1][trace[1].slot + 1] = Latest.out

\* C5 witness: a negative input on the left channel at the top of the range
\* came out positive
C5_Witness ==
    /\ Traced
    /\ Latest.crush = Rat(CrushMax)
    /\ Latest.channel = 0
    /\ Latest.x = Rat(-1)
    /\ Less(Zero, Latest.out)
    /\ Less(Latest.out, One)

\* a smoother step is being taken
StepTaken == nextCalls' = nextCalls + 1

\* C6: once set_target(T) was issued, every smoother step moves the smoothed
\* value towards T without passing it (so the values returned are monotone
\* while the target stays), the step NumSteps frames after the set_target
\* returns T exactly, and so does every later step.
C6_LinearRamp ==
    [][(StepTaken /\ requested # <<>> /\ requested' = requested
        /\ smoothed'.target = smoothed.target)
       => LET old == smoothed.current
              new == crush'
              T == smoothed.target
          IN  /\ new = smoothed'.current
              /\ old <= T => (old <= new /\ new <= T)
              /\ old >= T => (old >= new /\ new >= T)
              /\ sinceSet' >= NumSteps => new = T]_vars

\* C6 witness: a ramp that took a frame in between has landed on its target
\* in the frame NumSteps after the set_target
C6_Witness ==
    /\ pc = "samples"
    /\ requested # <<>>
    /\ sinceSet = NumSteps
    /\ Len(frameCrush) = MaxFrames
    /\ frameCrush[MaxFrames] = smoothed.target
    /\ frameCrush[MaxFrames - 1] # smoothed.target
    /\ frameCrush[MaxFrames - 1] # CrushDefault

\* C7: set_target never fails and clamps: a request below 20.0 makes the
\* target 20.0, one above 50.0 makes it 50.0, one inside the range is taken
\* as it is, so the target lies in [20.0, 50.0] after any set_target.
C7_TargetClamped ==
    /\ \A v \in Requests : ENABLED SetTarget(v)
    /\ requested # <<>> =>
          LET v == requested[1]
          IN  /\ v < CrushMin => smoothed.target = CrushMin
              /\ v > CrushMax => smoothed.target = CrushMax
              /\ (CrushMin <= v /\ v <= CrushMax) => smoothed.target = v
              /\ smoothed.target \in CrushMin..CrushMax

\* C7 witness: a request below the range was raised to the minimum
C7_Witness ==
    /\ requested # <<>>
    /\ requested[1] < CrushMin
    /\ smoothed.target = CrushMin

\* s lies exactly half way between two integers
IsTie(s) == (2 * s[1]) % (2 * s[2]) = s[2]

\* C8: the quantized value q is an integer at most 1/2 away from the scaled
\* value s, and a tie goes away from zero (|q| > |s|); at crush 20.0 and
\* input 0.5 the right channel quantizes 10.0 to 10 and restores 0.5, the
\* left channel quantizes 10.5 to 11 and restores 11/21.
C8_RoundHalfAwayFromZero ==
    Traced =>
        LET sc == Latest.scaled
            q == Latest.quantized
        IN  /\ q[2] = 1
            /\ 2 * AbsInt(q[1] * sc[2] - sc[1]) <= sc[2]
            /\ IsTie(sc) =>
                  /\ AbsInt(q[1]) * sc[2] > AbsInt(sc[1])
                  /\ (sc[1] > 0) = (q[1] > 0)
            /\ (Latest.crush = Rat(CrushMin) /\ Latest.x = <<1, 2>>) =>
                  IF Latest.channel = 0
                  THEN /\ sc = <<21, 2>>
                       /\ q = Rat(11)
                       /\ Latest.restored = <<11, 21>>
                  ELSE /\ sc = Rat(10)
                       /\ q = Rat(10)
                       /\ Latest.restored = <<1, 2>>

\* C8 witness: a negative tie on the right channel was rounded down
C8_Witness ==
    /\ Traced
    /\ IsTie(Latest.scaled)
    /\ Latest.scaled[1] < 0
    /\ Latest.channel = 1
    /\ Less(Latest.quantized, Latest.scaled)

\* C9: for every block, the empty one included, process runs to completion
\* (between two frames it can start the next frame or return, inside a frame
\* the sample loop has a sample of the block to process), writes each sample
\* of the block in place exactly once and returns Normal, the only status;
\* initialize returns true.
C9_ProcessTotal ==
    /\ status \in {"None", "Normal"}
    /\ pc \in {"frames", "samples"} => status = "None"
    /\ (pc = "idle" /\ Len(writes) > 0) => status = "Normal"
    /\ pc # "new" => initResult = "true"
    /\ pc = "frames" => ENABLED (NextFrame \/ ProcessReturn)
    /\ pc = "samples" => (sampleIt < NumChannels /\ frame < Len(buffer))
    /\ \A f \in 1..Len(writes) : \A c \in Channels : writes[f][c] <= 1
    /\ \A f \in 1..Len(buffer) : \A c \in Channels :
          writes[f][c] = 0 => buffer[f][c] = input[f][c]
    /\ (pc = "idle" /\ status = "Normal") =>
          \A f \in 1..Len(writes) : \A c \in Channels : writes[f][c] = 1

\* C9 witness: process has returned Normal from a block of MaxFrames frames,
\* each sample written once
C9_Witness ==
    /\ pc = "idle"
    /\ status = "Normal"
    /\ initResult = "true"
    /\ Len(writes) = MaxFrames
    /\ \A f \in 1..MaxFrames : \A c \in Channels : writes[f][c] = 1

\* any two written samples of the block that had the same smoothed crush
\* value, the same channel and the same input hold the same output
SameInSameOut ==
    \A a \in Written : \A b \in Written :
        (/\ frameCrush[a[1]] = frameCrush[b[1]]
         /\ a[2] = b[2]
         /\ input[a[1]][a[2]] = input[b[1]][b[2]])
        => buffer[a[1]][a[2]] = buffer[b[1]][b[2]]

\* C10: an output sample is a function of the smoothed crush value of its
\* frame, its channel and its own input alone, whatever the other samples of
\* the block are and whenever set_target is called; a step of process leaves
\* the parameter's target as it is, and a set_target leaves the smoothed
\* value, the locals and the block as they are.
C10_StatelessDeterministic ==
    [][/\ SameInSameOut'
       /\ <<pc, frame, sampleIt>>' # <<pc, frame, sampleIt>>
             => smoothed'.target = smoothed.target
       /\ requested' # requested
             => /\ smoothed'.current = smoothed.current
                /\ <<buffer, crush, channel>>' = <<buffer, crush, channel>>]_vars

\* C10 witness: two frames with the same crush value and the same right input
\* but different left inputs hold the same right output, after a set_target
\* that arrived while the block was being processed
C10_Witness ==
    /\ Len(buffer) = MaxFrames
    /\ <<1, 2>> \in Written
    /\ <<MaxFrames, 2>> \in Written
    /\ frameCrush[1] = frameCrush[MaxFrames]
    /\ frameCrush[1] \in CrushMin..CrushMax
    /\ input[1][2] = input[MaxFrames][2]
    /\ input[1][1] # input[MaxFrames][1]
    /\ buffer[1][2] = buffer[MaxFrames][2]
    /\ sinceSet = 0
    /\ smoothed.target # frameCrush[1]

====
